---- MODULE Spec2Model ----
(***************************************************************************)
(* The Minesweeper solver of src/minesweeper_solver.ts as a state machine: *)
(* the main script (opening click, bounded game loop, status query),       *)
(* solveStep (scan, Rule 1, Rule 2, Rule 3), getBoardState and clickCell,  *)
(* run against a Minesweeper page (fixed mine set, true adjacent counts,   *)
(* cascade on zero, flag toggle, loss and win signals).                    *)
(***************************************************************************)
EXTENDS Integers, Sequences, FiniteSets, TLC

\* ------------------------------------------------------------ bounds
\* Rows of the page's grid in the played games.  The grid has three columns,
\* the narrowest in which a cell has neighbours on both sides.
GridHeight == 2
\* Largest number of mines on the page.
MaxMines == 1
\* Clicks that clickCell may lose (return without any effect on the page) in
\* one run of a specification with a limited budget.
MaxFailedClicks == 1
\* Cells of a page given to getBoardState whose classes are chosen freely; the
\* others are closed.
MaxMarkedCells == 1

\* ------------------------------------------------------------ constants
\* let maxIterations = 100
MaxIterations == 100
\* let retries = 3
Retries == 3
\* hdd_type10: a mine shown after the loss; hdd_type11: the clicked mine
TypeMine == 10
TypeClickedMine == 11
\* cellState.value = -2 (regular mine), -1 (clicked mine)
UnexplodedMine == -2
ExplodedMine == -1
\* value: null (interface Cell), and an element without any hdd_type class
Null == -9
NoType == -1

\* ------------------------------------------------------------ helpers
Max(S) == CHOOSE m \in S : \A n \in S : n <= m

SeqToSet(s) == {s[i] : i \in 1..Len(s)}

Grid(h, w) == (0..(h - 1)) \X (0..(w - 1))

GridColumns == {0, 1, 2}

GridWidth == Cardinality(GridColumns)

Adjacent(x, y) ==
    /\ x # y
    /\ x[1] - y[1] \in {-1, 0, 1}
    /\ x[2] - y[2] \in {-1, 0, 1}

\* ------------------------------------------------------------ the page
\* The page is the record [dom, smiley, game, delay]: dom gives every cell
\* element's classes ([opened, flag, type]); smiley and game are the class sets
\* of #smiley and #game; delay is the number of waits for the DOM that time out
\* before the page shows what a click did.  mines is the page's hidden mine set.
ClosedCell == [opened |-> FALSE, flag |-> FALSE, type |-> NoType]

PageNeighbors(d, x) == {y \in DOMAIN d : Adjacent(x, y)}

AdjacentMines(d, m, x) == Cardinality(PageNeighbors(d, x) \cap m)

Exploded(d) == \E x \in DOMAIN d : d[x].opened /\ d[x].type = TypeClickedMine

AllSafeOpened(d, m) == \A x \in DOMAIN d : x \notin m => d[x].opened

PageOver(d, m) == Exploded(d) \/ AllSafeOpened(d, m)

\* The cells a left click on the safe cell x opens: x, and around every opened
\* zero its closed, unflagged neighbours.
RECURSIVE Cascade(_, _, _)
Cascade(d, m, S) ==
    CHOOSE T \in
        { IF R = S THEN S ELSE Cascade(d, m, R) :
            R \in { S \cup {y \in DOMAIN d :
                               /\ ~d[y].opened
                               /\ ~d[y].flag
                               /\ \E z \in S : Adjacent(z, y) /\ AdjacentMines(d, m, z) = 0} } } :
        TRUE

\* The loss signals the page may show: at least one of them.
LossSignals ==
    { [smiley |-> {"hd_lose"}, game |-> {"gameover"}],
      [smiley |-> {"hdd_lose"}, game |-> {}],
      [smiley |-> {}, game |-> {"gameover"}] }

\* The pages a left click on x may lead to.
PageLeftClick(p, m, x) ==
    LET d == p.dom IN
    IF PageOver(d, m) \/ x \notin DOMAIN d \/ d[x].opened \/ d[x].flag
    THEN {p}
    ELSE IF x \in m
    THEN LET d2 == [y \in DOMAIN d |->
                      IF y = x
                      THEN [opened |-> TRUE, flag |-> FALSE, type |-> TypeClickedMine]
                      ELSE IF y \in m /\ ~d[y].flag
                      THEN [opened |-> TRUE, flag |-> FALSE, type |-> TypeMine]
                      ELSE d[y]]
         IN  {[p EXCEPT !.dom = d2, !.smiley = s.smiley, !.game = s.game] : s \in LossSignals}
    ELSE LET R == Cascade(d, m, {x})
             d2 == [y \in DOMAIN d |->
                      IF y \in R
                      THEN [opened |-> TRUE, flag |-> FALSE,
                            type |-> AdjacentMines(d, m, y)]
                      ELSE d[y]]
             \* a won game shows its remaining mines as flags
             d3 == [y \in DOMAIN d |->
                      IF y \in m
                      THEN [opened |-> FALSE, flag |-> TRUE, type |-> NoType]
                      ELSE d2[y]]
         IN  IF AllSafeOpened(d2, m)
             THEN {[p EXCEPT !.dom = d3, !.smiley = {"hd_win"}]}
             ELSE {[p EXCEPT !.dom = d2]}

\* The page a right click on x leads to: the flag of a closed cell toggles.
PageRightClick(p, m, x) ==
    LET d == p.dom IN
    IF PageOver(d, m) \/ x \notin DOMAIN d \/ d[x].opened
    THEN {p}
    ELSE {[p EXCEPT !.dom = [d EXCEPT ![x].flag = ~d[x].flag]]}

PageClick(p, m, x, isRightClick) ==
    IF isRightClick THEN PageRightClick(p, m, x) ELSE PageLeftClick(p, m, x)

\* ------------------------------------------------------------ getBoardState
\* One element's classes as a Cell, with the flag class read by an if of its
\* own instead of the else if.
CellStateFlagAnyway(classes) ==
    IF classes.opened
    THEN [revealed |-> TRUE, flagged |-> classes.flag,
          value |-> IF classes.type = NoType THEN 0
                    ELSE IF classes.type = TypeMine THEN UnexplodedMine
                    ELSE IF classes.type = TypeClickedMine THEN ExplodedMine
                    ELSE classes.type]
    ELSE IF classes.flag
    THEN [revealed |-> FALSE, flagged |-> TRUE, value |-> Null]
    ELSE [revealed |-> FALSE, flagged |-> FALSE, value |-> Null]

\* One element's classes as a Cell.
CellState(classes) ==
    IF classes.opened
    THEN [revealed |-> TRUE, flagged |-> FALSE,
          value |-> IF classes.type = NoType THEN 0
                    ELSE IF classes.type = TypeMine THEN UnexplodedMine
                    ELSE IF classes.type = TypeClickedMine THEN ExplodedMine
                    ELSE classes.type]
    ELSE IF classes.flag
    THEN [revealed |-> FALSE, flagged |-> TRUE, value |-> Null]
    ELSE [revealed |-> FALSE, flagged |-> FALSE, value |-> Null]

EmptyCell == [revealed |-> FALSE, flagged |-> FALSE, value |-> Null]

\* getBoardState with gameOver set for the clicked mine only.
getBoardStateClickedOnly(d) ==
    LET h == Max({x[1] : x \in DOMAIN d}) + 1
        w == Max({x[2] : x \in DOMAIN d}) + 1
    IN  [board |-> [x \in Grid(h, w) |->
                      IF x \in DOMAIN d THEN CellState(d[x]) ELSE EmptyCell],
         width |-> w,
         height |-> h,
         gameOver |-> \E x \in DOMAIN d :
                         d[x].opened /\ d[x].type = TypeClickedMine]

getBoardState(d) ==
    LET h == Max({x[1] : x \in DOMAIN d}) + 1
        w == Max({x[2] : x \in DOMAIN d}) + 1
    IN  [board |-> [x \in Grid(h, w) |->
                      IF x \in DOMAIN d THEN CellState(d[x]) ELSE EmptyCell],
         width |-> w,
         height |-> h,
         gameOver |-> \E x \in DOMAIN d :
                         d[x].opened /\ d[x].type \in {TypeMine, TypeClickedMine}]

\* ------------------------------------------------------------ solveStep's pure parts
\* for dr = -1..1, for dc = -1..1, skipping (0, 0): the k-th offset visited.
Offset(i) ==
    LET k == IF i <= 4 THEN i - 1 ELSE i
    IN  <<(k \div 3) - 1, (k % 3) - 1>>

\* The window without the test dr === 0 && dc === 0: the cell itself is in it.
WindowWithCentre(r, c, h, w) ==
    LET all == [i \in 1..9 |-> <<r + ((i - 1) \div 3) - 1, c + ((i - 1) % 3) - 1>>]
    IN  SelectSeq(all, LAMBDA n : n[1] >= 0 /\ n[1] < h /\ n[2] >= 0 /\ n[2] < w)

\* The positions of the 3x3 window around (r, c) that pass the bounds test, in
\* the order the loops visit them.
Window(r, c, h, w) ==
    LET all == [i \in 1..8 |-> <<r + Offset(i)[1], c + Offset(i)[2]>>]
    IN  SelectSeq(all, LAMBDA n : n[1] >= 0 /\ n[1] < h /\ n[2] >= 0 /\ n[2] < w)

\* neighbors without the test of revealed: every unflagged cell of the window.
UnopenedListUnflagged(b, r, c, h, w) ==
    SelectSeq(Window(r, c, h, w), LAMBDA n : ~b[n].flagged)

\* neighbors: the window's cells that are neither revealed nor flagged.
UnopenedList(b, r, c, h, w) ==
    SelectSeq(Window(r, c, h, w), LAMBDA n : ~b[n].revealed /\ ~b[n].flagged)

\* flaggedNeighbors with the else branch counting every neighbour the first
\* test rejected, the revealed ones included.
FlaggedCountAll(b, r, c, h, w) ==
    Len(SelectSeq(Window(r, c, h, w),
                  LAMBDA n : ~(~b[n].revealed /\ ~b[n].flagged)))

\* flaggedNeighbors: the window's flagged cells that the first test rejected.
FlaggedCount(b, r, c, h, w) ==
    Len(SelectSeq(Window(r, c, h, w),
                  LAMBDA n : ~(~b[n].revealed /\ ~b[n].flagged) /\ b[n].flagged))

\* The skip test without its value === 0 case.
SkippedKeepsZero(cell) ==
    \/ ~cell.revealed
    \/ cell.value = Null
    \/ cell.value = ExplodedMine
    \/ cell.value = UnexplodedMine

\* if (!cell.revealed || value === null || 0 || -1 || -2) continue
Skipped(cell) ==
    \/ ~cell.revealed
    \/ cell.value = Null
    \/ cell.value = 0
    \/ cell.value = ExplodedMine
    \/ cell.value = UnexplodedMine

\* Rule 1's condition with <= for ===.
Rule1FiresAtMost(u, v, f) == u > 0 /\ u <= v - f

\* Rule 1's condition with >= for ===.
Rule1FiresAtLeast(u, v, f) == u > 0 /\ u >= v - f

Rule1Fires(u, v, f) == u > 0 /\ u = v - f

\* Rule 2's condition with >= for ===.
Rule2FiresAtLeast(u, v, f) == u > 0 /\ v >= f

Rule2Fires(u, v, f) == u > 0 /\ v = f

\* Rule 3's candidates without the test of revealed: every unflagged cell
\* next to a revealed one.
CandidatesUnflagged(b, h, w) ==
    {x \in Grid(h, w) :
        /\ ~b[x].flagged
        /\ \E i \in 1..Len(Window(x[1], x[2], h, w)) :
               b[Window(x[1], x[2], h, w)[i]].revealed}

\* Rule 3's candidates without the test for a revealed neighbour.
CandidatesAnywhere(b, h, w) ==
    {x \in Grid(h, w) : ~b[x].revealed /\ ~b[x].flagged}

\* Rule 3's candidates, in row-major order, as a set.
Candidates(b, h, w) ==
    {x \in Grid(h, w) :
        /\ ~b[x].revealed
        /\ ~b[x].flagged
        /\ \E i \in 1..Len(Window(x[1], x[2], h, w)) :
               b[Window(x[1], x[2], h, w)[i]].revealed}

\* The status read from the classes of #smiley alone.
GameStatusSmileyOnly(p) ==
    LET lossCondition == \/ "hd_lose" \in p.smiley
                         \/ "hdd_lose" \in p.smiley
    IN  IF lossCondition THEN "lost"
        ELSE IF "hd_win" \in p.smiley THEN "won"
        ELSE "ongoing"

\* The status after the opening click with the win signal tested first.
GameStatusWinFirst(p) ==
    LET lossCondition == \/ "hd_lose" \in p.smiley
                         \/ "hdd_lose" \in p.smiley
                         \/ "gameover" \in p.game
    IN  IF "hd_win" \in p.smiley THEN "won"
        ELSE IF lossCondition THEN "lost"
        ELSE "ongoing"

\* The status the script reports after a loss on the opening click, from the
\* classes of #smiley and #game.
GameStatus(p) ==
    LET lossCondition == \/ "hd_lose" \in p.smiley
                         \/ "hdd_lose" \in p.smiley
                         \/ "gameover" \in p.game
    IN  IF lossCondition THEN "lost"
        ELSE IF "hd_win" \in p.smiley THEN "won"
        ELSE "ongoing"

\* The status the script reports after the loop.
FinalGameStatus(p) ==
    LET lossCondition == \/ "hd_lose" \in p.smiley
                         \/ "hdd_lose" \in p.smiley
                         \/ "gameover" \in p.game
    IN  IF lossCondition THEN "lost"
        ELSE IF "hd_win" \in p.smiley THEN "won"
        ELSE "ongoing"

\* ------------------------------------------------------------ state
VARIABLES
    mines,              \* the page's mine set
    page,               \* [dom, smiley, game]
    pending,            \* <<click>>: a lost click the page may still apply
    lag,                \* whether the page may apply a lost click later
    failBudget,         \* clicks that may still be lost (-1: any number)
    pc,                 \* the script's position
    centerRow, centerCol,
    maxIterations,
    gameStatus,
    board, width, height, gameOver,     \* solveStep's snapshot variables
    actionTaken,
    row, col,
    cellValue,          \* cell.value of the scanned cell
    unopenedNeighbors, flaggedNeighbors, neighbors,
    idx,                \* position of the for-of loop in neighbors
    ret,                \* solveStep's return value
    hist                \* history of the run, read by the properties only

pageVars == <<mines, page, pending, lag, failBudget>>
mainVars == <<centerRow, centerCol, maxIterations, gameStatus>>
snapVars == <<board, width, height, gameOver>>
scanVars == <<row, col, cellValue, unopenedNeighbors, flaggedNeighbors, neighbors, idx>>
vars == <<pageVars, pc, mainVars, snapVars, actionTaken, scanVars, ret, hist>>

NoCell == <<-1, -1>>

NoClick == [rule |-> "none", cell |-> NoCell, right |-> FALSE, effect |-> FALSE,
            age |-> 0, pos |-> 0, made |-> FALSE, shownAt |-> 0, waits |-> 0,
            confirmed |-> FALSE, warned |-> FALSE,
            onFlagged |-> FALSE, onRevealed |-> FALSE, fresh |-> FALSE,
            removedFlag |-> FALSE, lateFlag |-> FALSE, listedClosed |-> FALSE]

InitHist ==
    [lastClick |-> NoClick,
     sinceSnap |-> 0,       \* clicks issued since the last snapshot was taken
     boardAge |-> 0,        \* clicks issued since the snapshot held in board
     listAge |-> 0,         \* clicks issued since the snapshot the targets come from
     stepClicks |-> 0,      \* clicks issued in the current step
     sawOver |-> FALSE,     \* a snapshot of the current step had gameOver
     startOver |-> FALSE,   \* the current step's first snapshot had gameOver
     selectorRan |-> FALSE, \* the current step computed Rule 3's candidates
     stepsInvoked |-> 0,
     falseReturns |-> 0,
     statusQueries |-> 0,
     firstLoss |-> FALSE,   \* the snapshot after the opening click had gameOver
     explodedBy |-> "none", \* the rule whose click opened a mine
     scanFrom |-> NoCell,   \* where the scan that reached src resumed
     src |-> NoCell,        \* the cell whose rule matched last
     prevSrc |-> NoCell,    \* the cell whose rule matched before src, in this step
     scanBoard |-> <<>>,    \* board as it was when src was scanned
     fired |-> "none",      \* the rule src matched
     issued |-> <<>>,       \* the clicks issued on account of src
     skippedTargets |-> {}, \* Rule 1 targets skipped as already flagged
     firstBoard |-> <<>>,   \* the board of the current step's first snapshot
     dims |-> <<0, 0>>,     \* height and width of the game's first snapshot
     resized |-> FALSE]     \* a later snapshot had another height or width

ClosedDom(h, w) == [x \in Grid(h, w) |-> ClosedCell]

ProgramInit ==
    /\ pc = "start"
    /\ centerRow = 0 /\ centerCol = 0
    /\ maxIterations = 0
    /\ gameStatus = "none"
    /\ board = <<>> /\ width = 0 /\ height = 0 /\ gameOver = FALSE
    /\ actionTaken = FALSE
    /\ row = 0 /\ col = 0 /\ cellValue = Null
    /\ unopenedNeighbors = 0 /\ flaggedNeighbors = 0 /\ neighbors = <<>> /\ idx = 0
    /\ ret = FALSE
    /\ hist = InitHist

MineSets(h, w, k) == {m \in SUBSET Grid(h, w) : Cardinality(m) <= k}

\* A fresh game on the page, the script at its first getBoardState.
GameInit(mineSets, lagging, budget) ==
    /\ mines \in mineSets
    /\ page = [dom |-> ClosedDom(GridHeight, GridWidth), smiley |-> {}, game |-> {}, delay |-> 0]
    /\ pending = <<>>
    /\ lag = lagging
    /\ failBudget = budget
    /\ ProgramInit

Init == GameInit(MineSets(GridHeight, GridWidth, MaxMines), FALSE, MaxFailedClicks)

\* ------------------------------------------------------------ history updates
HistSnapshot(h, s, assigned) ==
    [h EXCEPT !.sinceSnap = 0,
              !.boardAge = IF assigned THEN 0 ELSE @,
              !.sawOver = @ \/ s.gameOver,
              !.dims = IF @ = <<0, 0>> THEN <<s.height, s.width>> ELSE @,
              !.resized = @ \/ (h.dims # <<0, 0>> /\ h.dims # <<s.height, s.width>>)]

HistReturn(h, value) ==
    [h EXCEPT !.falseReturns = IF value THEN @ ELSE @ + 1]

HistScan(h, x, b, rule) ==
    [h EXCEPT !.src = x, !.scanBoard = b, !.fired = rule, !.listAge = h.boardAge,
              !.prevSrc = IF h.src # NoCell THEN h.src ELSE @,
              !.issued = <<>>, !.skippedTargets = {}]

HistStepReset(h) ==
    [h EXCEPT !.lastClick = NoClick,
              !.stepClicks = 0, !.sawOver = FALSE, !.startOver = FALSE,
              !.selectorRan = FALSE, !.scanFrom = NoCell, !.src = NoCell,
              !.prevSrc = NoCell, !.scanBoard = <<>>,
              !.fired = "none", !.issued = <<>>, !.skippedTargets = {},
              !.firstBoard = <<>>]

\* ------------------------------------------------------------ clickCell
\* The pages after the page has handled the click it still holds, if any: the
\* page handles clicks in the order they were made.
Flushed(p, m, q) ==
    IF q = <<>> THEN {p} ELSE PageClick(p, m, q[1].cell, q[1].right)

\* The rule whose click opened a mine, given the pages before and after.
ExplodedBy(old, before, after, rule) ==
    IF Exploded(after.dom) /\ ~Exploded(before.dom) THEN rule ELSE old

\* The element of x carries hdd_opened or hdd_flag: what waitForFunction tests.
Shown(d, x) == x \in DOMAIN d /\ (d[x].opened \/ d[x].flag)

\* The wait at which the DOM first shows the class, given the pages before and
\* after the click (0: at none).
ShownAt(before, after, x) ==
    IF Shown(before.dom, x) THEN 1
    ELSE IF Shown(after.dom, x) THEN after.delay + 1
    ELSE 0

\* while (retries--) { try { await waitForFunction; break } catch { delay } }:
\* the loop from `retries`, after `waits` waits, on a DOM that shows the class
\* from wait k on.
RECURSIVE WaitLoop(_, _, _)
WaitLoop(retries, waits, k) ==
    IF retries = 0
    THEN [retries |-> retries - 1, waits |-> waits, confirmed |-> FALSE]
    ELSE IF k # 0 /\ waits + 1 >= k
    THEN [retries |-> retries - 1, waits |-> waits + 1, confirmed |-> TRUE]
    ELSE WaitLoop(retries - 1, waits + 1, k)

\* The warning with the test retries <= 0.
WarnedAtZero(w) == w.retries <= 0

\* if (retries < 0) console.warn('DOM update failed after retries, proceeding...')
Warned(w) == w.retries < 0

\* The loop not entered: clickCell returned before the click (no element, or
\* no bounding box).
EarlyReturn == [retries |-> Retries, waits |-> 0, confirmed |-> FALSE]

\* The record of a call of clickCell: k is the wait at which the DOM shows the
\* class, w the outcome of the loop, before and after the pages around the
\* click; onFlagged, onRevealed and fresh say how board, the stored snapshot,
\* shows the cell and whether a click was issued since it was taken.
ClickRecord(h, rule, x, isRightClick, effect, k, w, before, after) ==
    [rule |-> rule, cell |-> x, right |-> isRightClick, effect |-> effect,
     age |-> h.listAge, pos |-> Len(h.issued) + 1,
     made |-> w # EarlyReturn, shownAt |-> k, waits |-> w.waits,
     confirmed |-> w.confirmed, warned |-> Warned(w),
     onFlagged |-> x \in DOMAIN board /\ board[x].flagged,
     onRevealed |-> x \in DOMAIN board /\ board[x].revealed,
     fresh |-> h.boardAge = 0,
     \* the board the targets were listed from shows the cell closed, unflagged
     listedClosed |-> /\ x \in DOMAIN h.scanBoard
                      /\ ~h.scanBoard[x].revealed
                      /\ ~h.scanBoard[x].flagged,
     removedFlag |-> /\ x \in DOMAIN before.dom
                     /\ before.dom[x].flag
                     /\ ~after.dom[x].flag,
     \* the page set the cell's flag, for a click it held, just before this one
     lateFlag |-> /\ x \in DOMAIN before.dom
                  /\ before.dom[x].flag
                  /\ ~page.dom[x].flag]

\* clickCell(page, row, col, isRightClick), issued for `rule`: the click reaches
\* the page, or clickCell returns without any effect on the page (no element,
\* no bounding box, or a page that has not handled the click when the wait for
\* the DOM gives up).  A page that holds a click handles it before the next; a
\* click it holds was made.
clickCell(h, rule, x, isRightClick) ==
    /\ \E done \in (IF failBudget = 0 \/ pending # <<>> THEN {TRUE} ELSE BOOLEAN) :
          IF done
          THEN \E q \in Flushed(page, mines, pending) :
                  /\ page' \in PageClick(q, mines, x, isRightClick)
                  /\ pending' = <<>>
                  /\ UNCHANGED failBudget
                  /\ hist' = [h EXCEPT
                        !.explodedBy =
                            IF pending # <<>> /\ Exploded(q.dom) /\ ~Exploded(page.dom)
                            THEN pending[1].rule
                            ELSE ExplodedBy(@, q, page', rule),
                        !.lastClick = ClickRecord(h, rule, x, isRightClick, TRUE,
                                          ShownAt(q, page', x),
                                          WaitLoop(Retries, 0, ShownAt(q, page', x)),
                                          q, page'),
                        !.sinceSnap = @ + 1,
                        !.boardAge = @ + 1,
                        !.listAge = @ + 1,
                        !.stepClicks = @ + 1,
                        !.issued = Append(@, [cell |-> x, right |-> isRightClick])]
          ELSE /\ page' = page
               /\ pending' = IF lag
                             THEN <<[rule |-> rule, cell |-> x, right |-> isRightClick]>>
                             ELSE pending
               /\ failBudget' = IF failBudget > 0 THEN failBudget - 1 ELSE failBudget
               /\ \E w \in (IF lag THEN {} ELSE {EarlyReturn})
                             \cup {WaitLoop(Retries, 0, ShownAt(page, page, x))} :
                  hist' = [h EXCEPT
                        !.lastClick = ClickRecord(h, rule, x, isRightClick, FALSE,
                                                  ShownAt(page, page, x), w,
                                                  page, page),
                        !.sinceSnap = @ + 1,
                        !.boardAge = @ + 1,
                        !.listAge = @ + 1,
                        !.stepClicks = @ + 1,
                        !.issued = Append(@, [cell |-> x, right |-> isRightClick])]
    /\ UNCHANGED <<mines, lag>>

\* The positions at which the script is about to call getBoardState, which
\* starts with a delay of one second.
SnapshotPoints == {"firstCheck", "solveStep", "rule1snap", "rule2snap", "rule3snap"}

\* The page handles the click it holds while the script waits in
\* getBoardState's delay.
PageDelayedEffect ==
    /\ pending # <<>>
    /\ pc \in SnapshotPoints
    /\ page' \in Flushed(page, mines, pending)
    /\ pending' = <<>>
    /\ hist' = [hist EXCEPT !.explodedBy = ExplodedBy(@, page, page', pending[1].rule)]
    /\ UNCHANGED <<mines, lag, failBudget, pc, mainVars, snapVars, actionTaken,
                   scanVars, ret>>

\* The page draws its grid again with one more row of closed cells, while the
\* script waits in getBoardState's delay; once in a game.
PageResize ==
    /\ pc \in SnapshotPoints
    /\ pending = <<>>
    /\ DOMAIN page.dom = Grid(GridHeight, GridWidth)
    /\ page' = [page EXCEPT !.dom = [x \in Grid(GridHeight + 1, GridWidth) |->
                                        IF x \in DOMAIN page.dom THEN page.dom[x]
                                                                 ELSE ClosedCell]]
    /\ UNCHANGED <<mines, pending, lag, failBudget, hist, pc, mainVars, snapVars,
                   actionTaken, scanVars, ret>>

\* ------------------------------------------------------------ the main script
\* const { width, height } = await getBoardState(); centerRow, centerCol
MainStart ==
    /\ pc = "start"
    /\ \E s \in {getBoardState(page.dom)} :
          /\ centerRow' = s.height \div 2
          /\ centerCol' = s.width \div 2
          /\ hist' = [HistSnapshot(hist, s, TRUE) EXCEPT !.listAge = 0]
    /\ pc' = "firstClick"
    /\ UNCHANGED <<pageVars, maxIterations, gameStatus, snapVars, actionTaken,
                   scanVars, ret>>

\* await clickCell(page, centerRow, centerCol, false)
MainFirstClick ==
    /\ pc = "firstClick"
    /\ clickCell(hist, "open", <<centerRow, centerCol>>, FALSE)
    /\ pc' = "firstCheck"
    /\ UNCHANGED <<mainVars, snapVars, actionTaken, scanVars, ret>>

\* The check of the opening click: on gameOver the status is reported and the
\* script returns; otherwise maxIterations is set for the loop.
MainInitialCheck ==
    /\ pc = "firstCheck"
    /\ \E s \in {getBoardState(page.dom)} :
          IF s.gameOver
          THEN /\ gameStatus' = GameStatus(page)
               /\ pc' = "done"
               /\ hist' = [HistSnapshot(hist, s, TRUE) EXCEPT
                             !.firstLoss = TRUE, !.statusQueries = @ + 1]
               /\ UNCHANGED maxIterations
          ELSE /\ maxIterations' = MaxIterations
               /\ pc' = "loop"
               /\ hist' = HistSnapshot(hist, s, TRUE)
               /\ UNCHANGED gameStatus
    /\ UNCHANGED <<pageVars, centerRow, centerCol, snapVars, actionTaken, scanVars, ret>>

\* The loop with the test maxIterations-- >= 0, which runs once more.
MainLoopOffByOne ==
    /\ pc = "loop"
    /\ maxIterations' = maxIterations - 1
    /\ IF maxIterations >= 0
       THEN /\ pc' = "solveStep"
            /\ hist' = [hist EXCEPT !.stepsInvoked = @ + 1]
       ELSE /\ pc' = "final"
            /\ UNCHANGED hist
    /\ UNCHANGED <<pageVars, centerRow, centerCol, gameStatus, snapVars, actionTaken,
                   scanVars, ret>>

\* while (maxIterations--) { const actionTaken = await solveStep(); ...
MainLoop ==
    /\ pc = "loop"
    /\ maxIterations' = maxIterations - 1
    /\ IF maxIterations # 0
       THEN /\ pc' = "solveStep"
            /\ hist' = [hist EXCEPT !.stepsInvoked = @ + 1]
       ELSE /\ pc' = "final"
            /\ UNCHANGED hist
    /\ UNCHANGED <<pageVars, centerRow, centerCol, gameStatus, snapVars, actionTaken,
                   scanVars, ret>>

\* if (!actionTaken) break; the step's variables go out of scope.
MainStepReturn ==
    /\ pc = "return"
    /\ pc' = IF ~ret THEN "final" ELSE "loop"
    /\ board' = <<>> /\ width' = 0 /\ height' = 0 /\ gameOver' = FALSE
    /\ actionTaken' = FALSE
    /\ row' = 0 /\ col' = 0 /\ cellValue' = Null
    /\ unopenedNeighbors' = 0 /\ flaggedNeighbors' = 0 /\ neighbors' = <<>> /\ idx' = 0
    /\ hist' = HistStepReset(hist)
    /\ UNCHANGED <<pageVars, mainVars, ret>>

\* The final game status.
MainFinalStatus ==
    /\ pc = "final"
    /\ gameStatus' = FinalGameStatus(page)
    /\ pc' = "done"
    /\ hist' = [hist EXCEPT !.statusQueries = @ + 1]
    /\ UNCHANGED <<pageVars, centerRow, centerCol, maxIterations, snapVars,
                   actionTaken, scanVars, ret>>

\* ------------------------------------------------------------ solveStep
\* Storing a snapshot into board, width, height, gameOver.
Assign(s) ==
    /\ board' = s.board
    /\ width' = s.width
    /\ height' = s.height
    /\ gameOver' = s.gameOver

\* The scan starting over at the first cell after a cell's rules.
AdvanceRestart ==
    /\ row' = 0
    /\ col' = 0
    /\ cellValue' = Null
    /\ unopenedNeighbors' = 0
    /\ flaggedNeighbors' = 0
    /\ neighbors' = <<>>
    /\ idx' = 0

\* The inner loop's col++ after a cell's rules; the cell's counts go out of
\* scope.
Advance ==
    /\ row' = row
    /\ col' = col + 1
    /\ cellValue' = Null
    /\ unopenedNeighbors' = 0
    /\ flaggedNeighbors' = 0
    /\ neighbors' = <<>>
    /\ idx' = 0

\* The start of a step without the test of gameOver.
SolveStepBeginNoCheck ==
    /\ pc = "solveStep"
    /\ \E s \in {getBoardState(page.dom)} :
          /\ Assign(s)
          /\ hist' = [HistSnapshot(HistStepReset(hist), s, TRUE) EXCEPT
                        !.startOver = s.gameOver, !.firstBoard = s.board]
    /\ pc' = "scan"
    /\ actionTaken' = FALSE
    /\ row' = 0 /\ col' = 0
    /\ UNCHANGED <<pageVars, mainVars, cellValue, unopenedNeighbors, flaggedNeighbors,
                   neighbors, idx, ret>>

\* let { board, width, height, gameOver } = await getBoardState();
\* if (gameOver) return false; let actionTaken = false
SolveStepBegin ==
    /\ pc = "solveStep"
    /\ \E s \in {getBoardState(page.dom)} :
          /\ Assign(s)
          /\ IF s.gameOver
             THEN /\ ret' = FALSE
                  /\ pc' = "return"
                  /\ hist' = HistReturn(
                        [HistSnapshot(HistStepReset(hist), s, TRUE) EXCEPT
                           !.startOver = TRUE, !.firstBoard = s.board], FALSE)
             ELSE /\ pc' = "scan"
                  /\ hist' = [HistSnapshot(HistStepReset(hist), s, TRUE) EXCEPT
                                !.startOver = FALSE, !.firstBoard = s.board]
                  /\ UNCHANGED ret
    /\ actionTaken' = FALSE
    /\ row' = 0 /\ col' = 0
    /\ UNCHANGED <<pageVars, mainVars, cellValue, unopenedNeighbors, flaggedNeighbors,
                   neighbors, idx>>

\* The scan loops from (r, c) on: the first cell that is not skipped and
\* matches Rule 1 or Rule 2 on board b, or NoCell when the loops end.
RECURSIVE ScanFrom(_, _, _, _, _)
ScanFrom(b, r, c, h, w) ==
    IF r >= h THEN NoCell
    ELSE IF c >= w THEN ScanFrom(b, r + 1, 0, h, w)
    ELSE LET cell == b[<<r, c>>]
             u == Len(UnopenedList(b, r, c, h, w))
             f == FlaggedCount(b, r, c, h, w)
         IN  IF ~Skipped(cell) /\ (Rule1Fires(u, cell.value, f) \/ Rule2Fires(u, cell.value, f))
             THEN <<r, c>>
             ELSE ScanFrom(b, r, c + 1, h, w)

\* The scan runs, without any await, up to the next cell one of whose rules
\* matches: its neighbours are counted on board and its first loop is entered.
\* When the loops end Rule 3 is next.
ScanCell ==
    /\ pc = "scan"
    /\ \E x \in {ScanFrom(board, row, col, height, width)} :
       IF x = NoCell
       THEN /\ pc' = "rule3"
            /\ row' = height /\ col' = 0
            /\ hist' = [HistScan(hist, NoCell, board, "none") EXCEPT
                          !.scanFrom = <<row, col>>]
            /\ UNCHANGED <<cellValue, unopenedNeighbors, flaggedNeighbors, neighbors, idx>>
       ELSE LET nb == UnopenedList(board, x[1], x[2], height, width)
                f == FlaggedCount(board, x[1], x[2], height, width)
                v == board[x].value
            IN  /\ row' = x[1] /\ col' = x[2]
                /\ cellValue' = v
                /\ unopenedNeighbors' = Len(nb)
                /\ flaggedNeighbors' = f
                /\ neighbors' = nb
                /\ idx' = 1
                /\ pc' = IF Rule1Fires(Len(nb), v, f) THEN "rule1" ELSE "rule2"
                /\ hist' = [HistScan(hist, x, board,
                                     IF Rule1Fires(Len(nb), v, f) THEN "rule1" ELSE "rule2")
                            EXCEPT !.scanFrom = <<row, col>>]
    /\ UNCHANGED <<pageVars, mainVars, snapVars, actionTaken, ret>>

\* Rule 1's loop without the test of board[nr][nc].flagged.
Rule1TargetNoSkip ==
    /\ pc = "rule1"
    /\ IF idx > Len(neighbors)
       THEN /\ IF Rule2Fires(unopenedNeighbors, cellValue, flaggedNeighbors)
               THEN /\ pc' = "rule2"
                    /\ idx' = 1
                    /\ UNCHANGED <<row, col, cellValue, unopenedNeighbors,
                                   flaggedNeighbors, neighbors>>
               ELSE /\ pc' = "scan"
                    /\ Advance
            /\ UNCHANGED <<pageVars, hist>>
       ELSE /\ clickCell(hist, "rule1", neighbors[idx], TRUE)
            /\ pc' = "rule1snap"
            /\ UNCHANGED scanVars
    /\ UNCHANGED <<mainVars, snapVars, actionTaken, ret>>

\* Rule 1's loop: the next target is skipped if board shows it flagged, else it
\* is right-clicked; past the last target Rule 2's condition is tested on the
\* same counts.
Rule1Target ==
    /\ pc = "rule1"
    /\ IF idx > Len(neighbors)
       THEN /\ IF Rule2Fires(unopenedNeighbors, cellValue, flaggedNeighbors)
               THEN /\ pc' = "rule2"
                    /\ idx' = 1
                    /\ UNCHANGED <<row, col, cellValue, unopenedNeighbors,
                                   flaggedNeighbors, neighbors>>
               ELSE /\ pc' = "scan"
                    /\ Advance
            /\ UNCHANGED <<pageVars, hist>>
       ELSE IF board[neighbors[idx]].flagged
       THEN /\ idx' = idx + 1
            /\ pc' = "rule1"
            /\ hist' = [hist EXCEPT !.skippedTargets = @ \cup {neighbors[idx]}]
            /\ UNCHANGED <<pageVars, row, col, cellValue, unopenedNeighbors,
                           flaggedNeighbors, neighbors>>
       ELSE /\ clickCell(hist, "rule1", neighbors[idx], TRUE)
            /\ pc' = "rule1snap"
            /\ UNCHANGED scanVars
    /\ UNCHANGED <<mainVars, snapVars, actionTaken, ret>>

\* After a click of Rule 1 or Rule 2, with newState tested but not stored.
AfterClickStale(loop) ==
    \E s \in {getBoardState(page.dom)} :
    /\ UNCHANGED snapVars
    /\ IF s.gameOver
       THEN /\ ret' = FALSE
            /\ pc' = "return"
            /\ hist' = HistReturn(HistSnapshot(hist, s, FALSE), FALSE)
            /\ UNCHANGED <<actionTaken, scanVars>>
       ELSE /\ actionTaken' = TRUE
            /\ idx' = idx + 1
            /\ pc' = loop
            /\ hist' = HistSnapshot(hist, s, FALSE)
            /\ UNCHANGED <<ret, row, col, cellValue, unopenedNeighbors,
                           flaggedNeighbors, neighbors>>
    /\ UNCHANGED <<pageVars, mainVars>>

\* After a click of Rule 1 or Rule 2: the new state replaces board, width,
\* height and gameOver; on gameOver the step returns false.
AfterClick(loop) ==
    \E s \in {getBoardState(page.dom)} :
    /\ Assign(s)
    /\ IF s.gameOver
       THEN /\ ret' = FALSE
            /\ pc' = "return"
            /\ hist' = HistReturn(HistSnapshot(hist, s, TRUE), FALSE)
            /\ UNCHANGED <<actionTaken, scanVars>>
       ELSE /\ actionTaken' = TRUE
            /\ idx' = idx + 1
            /\ pc' = loop
            /\ hist' = HistSnapshot(hist, s, TRUE)
            /\ UNCHANGED <<ret, row, col, cellValue, unopenedNeighbors,
                           flaggedNeighbors, neighbors>>
    /\ UNCHANGED <<pageVars, mainVars>>

Rule1Snapshot ==
    /\ pc = "rule1snap"
    /\ AfterClick("rule1")

\* Rule 2's loop: every target is left-clicked.
Rule2Target ==
    /\ pc = "rule2"
    /\ IF idx > Len(neighbors)
       THEN /\ pc' = "scan"
            /\ Advance
            /\ UNCHANGED <<pageVars, hist>>
       ELSE /\ clickCell(hist, "rule2", neighbors[idx], FALSE)
            /\ pc' = "rule2snap"
            /\ UNCHANGED scanVars
    /\ UNCHANGED <<mainVars, snapVars, actionTaken, ret>>

Rule2Snapshot ==
    /\ pc = "rule2snap"
    /\ AfterClick("rule2")

\* Rule 3 without the test of actionTaken: the candidates are computed and one
\* is left-clicked whatever the rules did.
Rule3Ungated ==
    /\ pc = "rule3"
    /\ LET candidates == Candidates(board, height, width)
           h == [HistScan(hist, NoCell, board, "rule3") EXCEPT !.selectorRan = TRUE]
       IN  IF candidates = {}
           THEN /\ ret' = actionTaken
                /\ pc' = "return"
                /\ hist' = HistReturn(h, actionTaken)
                /\ UNCHANGED pageVars
           ELSE /\ \E x \in candidates : clickCell(h, "rule3", x, FALSE)
                /\ pc' = "rule3snap"
                /\ UNCHANGED ret
    /\ UNCHANGED <<mainVars, snapVars, actionTaken, scanVars>>

\* Rule 3: with no action taken, one of the candidates of board is left-clicked;
\* with none, or with an action taken, the step returns actionTaken.
Rule3 ==
    /\ pc = "rule3"
    /\ IF actionTaken
       THEN /\ ret' = actionTaken
            /\ pc' = "return"
            /\ hist' = HistReturn(hist, actionTaken)
            /\ UNCHANGED pageVars
       ELSE LET candidates == Candidates(board, height, width)
                h == [HistScan(hist, NoCell, board, "rule3") EXCEPT !.selectorRan = TRUE]
            IN  IF candidates = {}
                THEN /\ ret' = actionTaken
                     /\ pc' = "return"
                     /\ hist' = HistReturn(h, actionTaken)
                     /\ UNCHANGED pageVars
                ELSE /\ \E x \in candidates : clickCell(h, "rule3", x, FALSE)
                     /\ pc' = "rule3snap"
                     /\ UNCHANGED ret
    /\ UNCHANGED <<mainVars, snapVars, actionTaken, scanVars>>

\* The random reveal's check returning true whatever newState shows.
Rule3SnapshotAlwaysTrue ==
    /\ pc = "rule3snap"
    /\ \E newState \in {getBoardState(page.dom)} :
          hist' = HistSnapshot(hist, newState, FALSE)
    /\ actionTaken' = TRUE
    /\ ret' = TRUE
    /\ pc' = "return"
    /\ UNCHANGED <<pageVars, mainVars, snapVars, scanVars>>

\* newState after the random reveal: not stored into board.
Rule3Snapshot ==
    /\ pc = "rule3snap"
    /\ \E newState \in {getBoardState(page.dom)} :
          IF newState.gameOver
          THEN /\ ret' = FALSE
               /\ hist' = HistReturn(HistSnapshot(hist, newState, FALSE), FALSE)
               /\ UNCHANGED actionTaken
          ELSE /\ actionTaken' = TRUE
               /\ ret' = TRUE
               /\ hist' = HistSnapshot(hist, newState, FALSE)
    /\ pc' = "return"
    /\ UNCHANGED <<pageVars, mainVars, snapVars, scanVars>>

\* ------------------------------------------------------------ specifications
solveStep ==
    \/ SolveStepBegin
    \/ ScanCell
    \/ Rule1Target
    \/ Rule1Snapshot
    \/ Rule2Target
    \/ Rule2Snapshot
    \/ Rule3
    \/ Rule3Snapshot

GameLoop == MainLoop \/ solveStep \/ MainStepReturn \/ MainFinalStatus

Next == MainStart \/ MainFirstClick \/ MainInitialCheck \/ GameLoop

\* A game in which every click reaches the page at once, or never.
Spec == Init /\ [][Next]_vars

\* The same games, on a page that may apply a lost click later.
InitLag == GameInit(MineSets(GridHeight, GridWidth, MaxMines), TRUE, MaxFailedClicks)

NextLag == Next \/ PageDelayedEffect

SpecLag == InitLag /\ [][NextLag]_vars

\* The games with two mines in the top two rows of a grid one row higher, on a
\* page that may apply a lost click later.
InitLate ==
    /\ mines \in {m \in SUBSET Grid(2, GridWidth) : Cardinality(m) = 2}
    /\ page = [dom |-> ClosedDom(GridHeight + 1, GridWidth), smiley |-> {}, game |-> {},
               delay |-> 0]
    /\ pending = <<>>
    /\ lag = TRUE
    /\ failBudget = MaxFailedClicks
    /\ ProgramInit

SpecLate == InitLate /\ [][NextLag]_vars

\* The game loop with clicks lost without limit, on a grid with one mine in
\* the corner; the script keeps running.
InitLoop == GameInit({{<<0, 0>>}}, FALSE, -1)

SpecLoop == InitLoop /\ [][Next]_vars /\ WF_vars(Next)

\* The games with at most one mine on a page that shows what a click did at
\* once or after one to three waits for the DOM have timed out.
InitConfirm ==
    /\ mines \in MineSets(GridHeight, GridWidth, 1)
    /\ \E k \in 0..Retries :
          page = [dom |-> ClosedDom(GridHeight, GridWidth), smiley |-> {}, game |-> {},
                  delay |-> k]
    /\ pending = <<>>
    /\ lag = FALSE
    /\ failBudget = MaxFailedClicks
    /\ ProgramInit

SpecConfirm == InitConfirm /\ [][Next]_vars

\* The games with at most one mine, the script always taking its next step.
InitFair == GameInit(MineSets(GridHeight, GridWidth, 1), FALSE, MaxFailedClicks)

SpecFair == InitFair /\ [][Next]_vars /\ WF_vars(Next)

\* The games with at most one mine on a page that may draw a higher grid.
NextResize == Next \/ PageResize

SpecResize == InitFair /\ [][NextResize]_vars

\* The games on a page that handles every click at once, the script always
\* taking its next step.
InitProgress == GameInit(MineSets(GridHeight, GridWidth, MaxMines), FALSE, 0)

SpecProgress == InitProgress /\ [][Next]_vars /\ WF_vars(Next)

\* The scenario boards: three rows and columns, the centre revealed with its
\* count of adjacent mines, the other eight cells closed, the mines flagged or
\* not; the script is at the head of its loop.
ScenarioCentre == <<1, 1>>

ScenarioRing == Grid(3, 3) \ {ScenarioCentre}

ScenarioDom(m, flagged) ==
    [x \in Grid(3, 3) |->
        IF x = ScenarioCentre
        THEN [opened |-> TRUE, flag |-> FALSE, type |-> Cardinality(m)]
        ELSE [opened |-> FALSE, flag |-> x \in flagged, type |-> NoType]]

InitScenario ==
    /\ mines \in {m \in SUBSET ScenarioRing : Cardinality(m) <= MaxMines}
    /\ \E flagged \in {{}, mines} :
          page = [dom |-> ScenarioDom(mines, flagged), smiley |-> {}, game |-> {}, delay |-> 0]
    /\ pending = <<>>
    /\ lag = FALSE
    /\ failBudget = MaxFailedClicks
    /\ pc = "loop"
    /\ centerRow = 1 /\ centerCol = 1
    /\ maxIterations = MaxIterations
    /\ gameStatus = "none"
    /\ board = <<>> /\ width = 0 /\ height = 0 /\ gameOver = FALSE
    /\ actionTaken = FALSE
    /\ row = 0 /\ col = 0 /\ cellValue = Null
    /\ unopenedNeighbors = 0 /\ flaggedNeighbors = 0 /\ neighbors = <<>> /\ idx = 0
    /\ ret = FALSE
    /\ hist = InitHist

SpecScenario == InitScenario /\ [][GameLoop]_vars

\* getBoardState and the scan on any page: a grid of one to three rows and
\* columns of closed cells, up to MaxMarkedCells of which carry any classes
\* (opened or not, flag or not, no type, a count, a mine type or another type).
SnapshotSides == {1, 2, 3}

DomTypes == {NoType, 0, 1, 8, TypeMine, TypeClickedMine, 12}

DomClasses == [opened : BOOLEAN, flag : BOOLEAN, type : DomTypes]

SnapshotDom(h, w, f) ==
    [x \in Grid(h, w) |-> IF x \in DOMAIN f THEN f[x] ELSE ClosedCell]

InitSnapshot ==
    /\ mines = {}
    /\ \E h \in SnapshotSides, w \in SnapshotSides :
       \E marked \in {m \in SUBSET Grid(h, w) : Cardinality(m) <= MaxMarkedCells} :
       \E f \in [marked -> DomClasses] :
          page = [dom |-> SnapshotDom(h, w, f), smiley |-> {}, game |-> {}, delay |-> 0]
    /\ pending = <<>>
    /\ lag = FALSE
    /\ failBudget = 0
    /\ pc = "solveStep"
    /\ centerRow = 0 /\ centerCol = 0
    /\ maxIterations = MaxIterations
    /\ gameStatus = "none"
    /\ board = <<>> /\ width = 0 /\ height = 0 /\ gameOver = FALSE
    /\ actionTaken = FALSE
    /\ row = 0 /\ col = 0 /\ cellValue = Null
    /\ unopenedNeighbors = 0 /\ flaggedNeighbors = 0 /\ neighbors = <<>> /\ idx = 0
    /\ ret = FALSE
    /\ hist = InitHist

NextSnapshot == SolveStepBegin \/ ScanCell

SpecSnapshot == InitSnapshot /\ [][NextSnapshot]_vars

\* The scan on any neighbourhood: three rows and columns, the centre opened
\* with any count or mine type, each of the other eight cells closed, flagged
\* or opened without a type.
RingClasses ==
    { ClosedCell,
      [opened |-> FALSE, flag |-> TRUE, type |-> NoType],
      [opened |-> TRUE, flag |-> FALSE, type |-> NoType] }

CentreTypes == (0..8) \cup {TypeMine, TypeClickedMine}

InitRules ==
    /\ mines = {}
    /\ \E t \in CentreTypes, f \in [ScenarioRing -> RingClasses] :
          page = [dom |-> [x \in Grid(3, 3) |->
                              IF x = ScenarioCentre
                              THEN [opened |-> TRUE, flag |-> FALSE, type |-> t]
                              ELSE f[x]],
                  smiley |-> {}, game |-> {}, delay |-> 0]
    /\ pending = <<>>
    /\ lag = FALSE
    /\ failBudget = 0
    /\ pc = "solveStep"
    /\ centerRow = 1 /\ centerCol = 1
    /\ maxIterations = MaxIterations
    /\ gameStatus = "none"
    /\ board = <<>> /\ width = 0 /\ height = 0 /\ gameOver = FALSE
    /\ actionTaken = FALSE
    /\ row = 0 /\ col = 0 /\ cellValue = Null
    /\ unopenedNeighbors = 0 /\ flaggedNeighbors = 0 /\ neighbors = <<>> /\ idx = 0
    /\ ret = FALSE
    /\ hist = InitHist

SpecRules == InitRules /\ [][NextSnapshot]_vars

\* The two status queries on any page: #smiley and #game carry any of the
\* classes the script reads, the grid is closed or shows a clicked mine, and
\* the script is at the check of the opening click or past the loop.
SmileyClasses == {"hd_lose", "hdd_lose", "hd_win"}

GameClasses == {"gameover"}

StatusDoms ==
    { ClosedDom(GridHeight, GridWidth),
      [ClosedDom(GridHeight, GridWidth) EXCEPT
          ![<<0, 0>>] = [opened |-> TRUE, flag |-> FALSE, type |-> TypeClickedMine]] }

InitStatus ==
    /\ mines = {<<0, 0>>}
    /\ \E d \in StatusDoms, sm \in SUBSET SmileyClasses, g \in SUBSET GameClasses :
          page = [dom |-> d, smiley |-> sm, game |-> g, delay |-> 0]
    /\ pending = <<>>
    /\ lag = FALSE
    /\ failBudget = 0
    /\ pc \in {"firstCheck", "final"}
    /\ centerRow = 0 /\ centerCol = 0
    /\ maxIterations = 0
    /\ gameStatus = "none"
    /\ board = <<>> /\ width = 0 /\ height = 0 /\ gameOver = FALSE
    /\ actionTaken = FALSE
    /\ row = 0 /\ col = 0 /\ cellValue = Null
    /\ unopenedNeighbors = 0 /\ flaggedNeighbors = 0 /\ neighbors = <<>> /\ idx = 0
    /\ ret = FALSE
    /\ hist = InitHist

NextStatus == MainInitialCheck \/ MainFinalStatus

SpecStatus == InitStatus /\ [][NextStatus]_vars

\* ------------------------------------------------------------ properties
\* What the properties say of a board, stated on sets of cells.
Around(b, x) == {y \in DOMAIN b : Adjacent(x, y)}

UnopenedAround(b, x) == {y \in Around(b, x) : ~b[y].revealed /\ ~b[y].flagged}

FlaggedAround(b, x) == {y \in Around(b, x) : b[y].flagged}

Numbered(b, x) == b[x].revealed /\ b[x].value \in 1..8

MatchesRule1(b, x) ==
    /\ Numbered(b, x)
    /\ UnopenedAround(b, x) # {}
    /\ Cardinality(UnopenedAround(b, x)) = b[x].value - Cardinality(FlaggedAround(b, x))

MatchesRule2(b, x) ==
    /\ Numbered(b, x)
    /\ UnopenedAround(b, x) # {}
    /\ b[x].value = Cardinality(FlaggedAround(b, x))

Frontier(b) ==
    {x \in DOMAIN b : /\ ~b[x].revealed
                      /\ ~b[x].flagged
                      /\ \E y \in Around(b, x) : b[y].revealed}

\* Row-major order of two positions.
Before(x, y) == x[1] < y[1] \/ (x[1] = y[1] /\ x[2] < y[2])

\* The cells the last scan passed over without entering a rule's loop.
PassedOver ==
    IF hist.scanFrom = NoCell THEN {}
    ELSE {x \in DOMAIN hist.scanBoard :
            /\ ~Before(x, hist.scanFrom)
            /\ hist.src # NoCell => Before(x, hist.src)}

IssuedCells == {hist.issued[i].cell : i \in 1..Len(hist.issued)}

\* The loop of the rule that src matched is over (ended or left by a return).
BatchOver(rule) ==
    /\ pc # rule \o "snap"
    /\ ~(pc = rule /\ idx <= Len(neighbors))

\* C1: on a Minesweeper page (fixed mine set, true counts, flags set by the
\* solver only, every click applied at once or never) every Flag of Rule 1 is
\* on a mine, every Reveal of Rule 2 is on a cell without a mine, and a mine is
\* opened only by the opening click or by a random reveal of Rule 3.
C1_Soundness ==
    /\ hist.lastClick.rule = "rule1" =>
          hist.lastClick.right /\ hist.lastClick.cell \in mines
    /\ hist.lastClick.rule = "rule2" =>
          ~hist.lastClick.right /\ hist.lastClick.cell \notin mines
    /\ \A x \in DOMAIN page.dom : page.dom[x].flag => x \in mines
    /\ getBoardState(page.dom).gameOver => hist.explodedBy \in {"open", "rule3"}
    /\ gameOver => hist.explodedBy \in {"open", "rule3"}

\* A reveal of Rule 2 issued next to a flag that Rule 1 has set.
C1_Witness ==
    /\ hist.lastClick.rule = "rule2"
    /\ hist.lastClick.effect
    /\ \E x \in DOMAIN page.dom : page.dom[x].flag /\ Adjacent(x, hist.src)

C3_Rule2 ==
    /\ \A x \in PassedOver : ~MatchesRule2(hist.scanBoard, x)
    /\ hist.src # NoCell =>
          (hist.fired = "rule2" <=> MatchesRule2(hist.scanBoard, hist.src))
    /\ hist.fired = "rule2" =>
          /\ \A i \in 1..Len(hist.issued) : ~hist.issued[i].right
          /\ Cardinality(IssuedCells) = Len(hist.issued)
          /\ IssuedCells \subseteq UnopenedAround(hist.scanBoard, hist.src)
    /\ hist.fired = "rule2" /\ BatchOver("rule2") =>
          IssuedCells = UnopenedAround(hist.scanBoard, hist.src)

\* Rule 2's loop has ended with two or more reveals issued.
C3_Witness ==
    /\ pc = "rule2"
    /\ idx > Len(neighbors)
    /\ hist.fired = "rule2"
    /\ Len(hist.issued) = unopenedNeighbors
    /\ unopenedNeighbors >= 2

\* Scenario A: the step that starts on the board whose centre is revealed with
\* value 0 and whose eight neighbours are closed and unflagged.
ScenarioABoard ==
    [x \in Grid(3, 3) |->
        IF x = ScenarioCentre
        THEN [revealed |-> TRUE, flagged |-> FALSE, value |-> 0]
        ELSE EmptyCell]

ScenarioAStep == hist.stepsInvoked = 1 /\ mines = {}

\* C4 as stated: on the board of Scenario A the scan has issued 8 reveals, one
\* for each neighbour of the centre, when it ends.
C4_Original ==
    ScenarioAStep /\ pc = "rule3" => hist.stepClicks = 8

\* C4, amended: on the board of Scenario A the scan enters no rule's loop and
\* issues no click (a revealed cell of value 0 is skipped); the step then
\* issues one Reveal, on one of the eight neighbours, picked by Rule 3.
C4_ScenarioA ==
    ScenarioAStep =>
        /\ pc = "scan" => board = ScenarioABoard
        /\ pc \notin {"rule1", "rule1snap", "rule2", "rule2snap"}
        /\ pc = "rule3" => /\ board = ScenarioABoard
                           /\ hist.stepClicks = 0
                           /\ ~actionTaken
        /\ pc = "rule3snap" => /\ hist.stepClicks = 1
                               /\ hist.lastClick.rule = "rule3"
                               /\ ~hist.lastClick.right
                               /\ hist.lastClick.cell \in ScenarioRing
        /\ pc = "return" => hist.stepClicks = 1

\* The random reveal of the step of Scenario A has been issued.
C4_Witness == ScenarioAStep /\ pc = "rule3snap" /\ board = ScenarioABoard

\* C5: every cell Rule 3 can pick is unrevealed, unflagged and has a revealed
\* neighbour on the board the candidates are computed from; with no such cell
\* the step issues no click and returns false.
C5_RandomScope ==
    /\ pc = "rule3" /\ ~actionTaken =>
          /\ Candidates(board, height, width) \subseteq Frontier(board)
          /\ Frontier(board) = {} => Candidates(board, height, width) = {}
    /\ pc = "rule3snap" =>
          /\ hist.lastClick.rule = "rule3"
          /\ ~hist.lastClick.right
          /\ hist.lastClick.cell \in Frontier(board)
    /\ pc = "return" /\ hist.selectorRan /\ Frontier(board) = {} =>
          ~ret /\ hist.stepClicks = 0

\* Rule 3 has picked a cell among several candidates and the page has opened it.
C5_Witness ==
    /\ pc = "rule3snap"
    /\ hist.lastClick.rule = "rule3"
    /\ hist.lastClick.effect
    /\ Cardinality(Frontier(board)) >= 2

\* C6: solveStep returns true if and only if the step issued at least one
\* click and none of its snapshots had gameOver.
C6_ReturnValue ==
    pc = "return" => (ret <=> (hist.stepClicks > 0 /\ ~hist.sawOver))

\* A step returns false after a click because the next snapshot had gameOver.
C6_Witness ==
    /\ pc = "return"
    /\ ~ret
    /\ hist.stepClicks > 0
    /\ hist.sawOver

\* C7: a step whose first snapshot has gameOver is at its return at once, with
\* false, no click issued, no scan and no candidates computed.
C7_GameOverAtStart ==
    hist.startOver =>
        /\ pc = "return"
        /\ ~ret
        /\ hist.stepClicks = 0
        /\ hist.sinceSnap = 0
        /\ hist.scanFrom = NoCell
        /\ ~hist.selectorRan

\* A step has started on a page that shows a mine.
C7_Witness == hist.startOver /\ hist.stepsInvoked >= 1

\* C8: the loop invokes solveStep at most 100 times, invokes nothing after the
\* first false, and the script ends with its game status queried once.
C8_LoopBound ==
    /\ [](/\ hist.stepsInvoked <= MaxIterations
          /\ hist.falseReturns <= 1
          /\ hist.falseReturns = 1 => pc \in {"return", "final", "done"}
          /\ hist.statusQueries <= 1
          /\ pc = "done" <=> hist.statusQueries = 1)
    /\ <>(pc = "done")

\* The hundredth step returned true and the loop ended on its count.
C8_Witness ==
    /\ pc = "final"
    /\ hist.stepsInvoked = MaxIterations
    /\ hist.falseReturns = 0

\* C9: when the snapshot after the opening click has gameOver, solveStep is
\* never invoked, no further click is issued and the status reported is lost.
C9_FirstClickLoss ==
    hist.firstLoss =>
        /\ pc = "done"
        /\ gameStatus = "lost"
        /\ hist.stepsInvoked = 0
        /\ hist.lastClick.rule = "open"
        /\ hist.statusQueries = 1

\* The opening click opened a mine.
C9_Witness == hist.firstLoss /\ hist.explodedBy = "open"

\* A snapshot is taken after every click and before the next one.
SnapshotBetweenClicks ==
    /\ hist.sinceSnap <= 1
    /\ hist.sinceSnap = 1 => pc \in SnapshotPoints

\* C10 as stated: a snapshot is taken between any two clicks, and every click
\* is decided on a board no older than the click before it.
C10_Original ==
    /\ SnapshotBetweenClicks
    /\ hist.lastClick.rule # "none" => hist.lastClick.age = 0

\* C10, amended: a snapshot is taken between any two clicks and stored into
\* board before the next decision; a rule's targets are computed from the
\* snapshot taken after the last click before them, so that the k-th click of
\* one cell's loop is decided on a board k - 1 clicks old.
C10_Freshness ==
    /\ SnapshotBetweenClicks
    /\ pc \in {"scan", "rule1", "rule2", "rule3"} => hist.boardAge = 0
    /\ pc \in {"rule1", "rule2"} => hist.listAge = Len(hist.issued)
    /\ hist.lastClick.rule # "none" => hist.lastClick.age = hist.lastClick.pos - 1

\* The second click of one cell's loop, decided before the first.
C10_Witness == hist.lastClick.pos >= 2 /\ hist.lastClick.age >= 1

\* The step's first snapshot is stored in board, width, height and gameOver.
SnapshotTaken == pc # "solveStep" /\ board # <<>>

MineSentinels == {ExplodedMine, UnexplodedMine}

\* C11: a snapshot has gameOver if and only if one of its cells has the value
\* -1 or -2, whatever the other cells hold.
C11_TerminalDetection ==
    SnapshotTaken =>
        (gameOver <=> \E x \in DOMAIN board : board[x].value \in MineSentinels)

\* A snapshot of several cells, one of them a mine shown after the loss.
C11_Witness ==
    /\ SnapshotTaken
    /\ gameOver
    /\ Cardinality(DOMAIN board) > 1
    /\ \E x \in DOMAIN board : board[x].value = UnexplodedMine

\* The positions of a board by kind.
OnEdgeRow(x, h) == x[1] = 0 \/ x[1] = h - 1

OnEdgeCol(x, w) == x[2] = 0 \/ x[2] = w - 1

NeighbourCount(x) == Len(Window(x[1], x[2], height, width))

CornerEdgeInterior ==
    \A x \in Grid(height, width) :
        NeighbourCount(x) =
            IF OnEdgeRow(x, height) /\ OnEdgeCol(x, width) THEN 3
            ELSE IF OnEdgeRow(x, height) \/ OnEdgeCol(x, width) THEN 5
            ELSE 8

\* C13 as stated: on every board a corner cell has 3 neighbours, an edge cell
\* that is no corner 5 and an interior cell 8.
C13_Original == SnapshotTaken => CornerEdgeInterior

\* C13, amended: the counts 3, 5 and 8 hold on every board of at least two rows
\* and two columns; on any board the window holds the cells of the rows and
\* columns within one of the cell, the cell itself left out.
C13_NeighbourCount ==
    SnapshotTaken =>
        /\ height >= 2 /\ width >= 2 => CornerEdgeInterior
        /\ \A x \in Grid(height, width) :
              /\ SeqToSet(Window(x[1], x[2], height, width)) = Around(board, x)
              /\ NeighbourCount(x) = Cardinality(Around(board, x))
        /\ pc \in {"rule1", "rule2"} =>
              unopenedNeighbors + flaggedNeighbors
                 + Cardinality({y \in Around(board, <<row, col>>) : board[y].revealed})
              = NeighbourCount(<<row, col>>)

\* The scan has counted the eight neighbours of an interior cell.
C13_Witness ==
    /\ pc \in {"rule1", "rule2"}
    /\ height = 3 /\ width = 3
    /\ <<row, col>> = <<1, 1>>
    /\ unopenedNeighbors = 8

\* C20: in a snapshot a cell has a value if and only if it is revealed, and no
\* cell is both flagged and revealed: an element with both the opened and the
\* flag class is revealed and not flagged.
C20_CellInvariants ==
    SnapshotTaken =>
        \A x \in DOMAIN board :
            /\ board[x].value # Null <=> board[x].revealed
            /\ ~(board[x].flagged /\ board[x].revealed)
            /\ page.dom[x].opened /\ page.dom[x].flag =>
                  board[x].revealed /\ ~board[x].flagged

\* A snapshot of an element that carries both classes.
C20_Witness ==
    /\ SnapshotTaken
    /\ \E x \in DOMAIN board : page.dom[x].opened /\ page.dom[x].flag

\* A loss signal: a lose class on #smiley or the gameover class on #game.
LossSignal(p) ==
    \/ p.smiley \cap {"hd_lose", "hdd_lose"} # {}
    \/ "gameover" \in p.game

WinSignal(p) == "hd_win" \in p.smiley

\* C14: the status reported is lost whenever a loss signal is present, also
\* next to the win signal; won with the win signal and no loss signal; ongoing
\* otherwise; after a loss on the opening click as after the loop.
C14_StatusPriority ==
    pc = "done" =>
        /\ LossSignal(page) => gameStatus = "lost"
        /\ ~LossSignal(page) /\ WinSignal(page) => gameStatus = "won"
        /\ ~LossSignal(page) /\ ~WinSignal(page) => gameStatus = "ongoing"

\* The status after a loss on the opening click, on a page that shows the win
\* signal next to a loss signal.
C14_Witness ==
    /\ pc = "done"
    /\ hist.firstLoss
    /\ WinSignal(page)
    /\ LossSignal(page)
    /\ gameStatus = "lost"

\* The rules the scan's tests let fire for the cell x of board.
FiresRule1(x) ==
    /\ ~Skipped(board[x])
    /\ Rule1Fires(Len(UnopenedList(board, x[1], x[2], height, width)), board[x].value,
                  FlaggedCount(board, x[1], x[2], height, width))

FiresRule2(x) ==
    /\ ~Skipped(board[x])
    /\ Rule2Fires(Len(UnopenedList(board, x[1], x[2], height, width)), board[x].value,
                  FlaggedCount(board, x[1], x[2], height, width))

\* value - flaggedNeighbors of a revealed cell, and its unopened neighbours.
Remaining(x) == board[x].value - Cardinality(FlaggedAround(board, x))

NoMatchCase(x) ==
    \/ ~board[x].revealed
    \/ board[x].value \in {0} \cup MineSentinels
    \/ Remaining(x) < 0
    \/ Remaining(x) > Cardinality(UnopenedAround(board, x))

\* C17: for every cell at most one of Rule 1 and Rule 2 fires; none fires for
\* a cell that is unrevealed, of value 0 or a mine sentinel, or whose value
\* less its flagged neighbours is negative or more than its unopened
\* neighbours; the scan enters the loops accordingly.
C17_RuleExclusivity ==
    SnapshotTaken =>
        /\ \A x \in DOMAIN board :
              /\ ~(FiresRule1(x) /\ FiresRule2(x))
              /\ NoMatchCase(x) => ~FiresRule1(x) /\ ~FiresRule2(x)
        /\ pc = "rule1" =>
              /\ FiresRule1(<<row, col>>)
              /\ ~Rule2Fires(unopenedNeighbors, cellValue, flaggedNeighbors)
        /\ pc = "rule2" => FiresRule2(<<row, col>>) /\ ~FiresRule1(<<row, col>>)
        /\ pc = "rule3" => \A x \in DOMAIN board : ~FiresRule1(x) /\ ~FiresRule2(x)

\* The scan has ended without a match on a board whose centre has more
\* flagged neighbours than its value, and unopened neighbours.
C17_Witness ==
    /\ pc = "rule3"
    /\ board[ScenarioCentre].value \in 1..8
    /\ Remaining(ScenarioCentre) < 0
    /\ UnopenedAround(board, ScenarioCentre) # {}

\* C16: in one step Rule 3's selector runs only if no click of Rule 1 or
\* Rule 2 was issued in the step; it reads the board of the step's first
\* snapshot; the step then issues at most one random reveal; no step holds
\* both a click of Rule 1 or Rule 2 and a random reveal.
C16_RandomGating ==
    /\ hist.selectorRan =>
          /\ board = hist.firstBoard
          /\ hist.scanBoard = hist.firstBoard
          /\ hist.stepClicks <= 1
          /\ hist.stepClicks = 1 => hist.lastClick.rule = "rule3"
    /\ hist.lastClick.rule = "rule3" => hist.selectorRan /\ hist.stepClicks = 1
    /\ hist.lastClick.rule \in {"rule1", "rule2"} => ~hist.selectorRan
    /\ pc = "rule3snap" => ~actionTaken
    /\ pc = "rule3" /\ hist.stepClicks > 0 => actionTaken

\* A step has returned after its one random reveal.
C16_Witness ==
    /\ pc = "return"
    /\ ret
    /\ hist.selectorRan
    /\ hist.lastClick.rule = "rule3"
    /\ hist.stepsInvoked >= 2

\* The positions at which the script is inside solveStep.
InStep ==
    {"solveStep", "scan", "rule1", "rule1snap", "rule2", "rule2snap", "rule3", "rule3snap"}

\* Within a step: sources in increasing row-major order, the targets of one
\* source in the order of the 3x3 window, at most 8 * width * height clicks.
ScanOrder ==
    /\ hist.src # NoCell /\ hist.scanFrom # NoCell => ~Before(hist.src, hist.scanFrom)
    /\ hist.src # NoCell /\ hist.prevSrc # NoCell => Before(hist.prevSrc, hist.src)
    /\ pc \in {"rule1", "rule1snap", "rule2", "rule2snap"} =>
          /\ hist.src = <<row, col>>
          /\ \A i \in 1..Len(neighbors), j \in 1..Len(neighbors) :
                i < j => Before(neighbors[i], neighbors[j])
          /\ \A i \in 1..Len(hist.issued) : hist.issued[i].cell = neighbors[i]
    /\ pc \in InStep /\ pc # "solveStep" => hist.stepClicks <= 8 * width * height

\* C18: in one step the cells whose rules fire are visited in strictly
\* increasing row-major order, the targets of one cell are clicked in the
\* order of the 3x3 window, the step issues at most 8 * width * height
\* clicks, and every step returns.
C18_ScanOrder ==
    /\ []ScanOrder
    /\ (pc \in InStep) ~> (pc = "return")

\* The rules of a second cell fire in one step, and a click is issued for it.
C18_Witness ==
    /\ hist.prevSrc # NoCell
    /\ hist.src # NoCell
    /\ Len(hist.issued) >= 1

\* C19: a call of clickCell that made its click waits for the DOM at most
\* three times, stops at the first wait that succeeds, returns to its caller
\* at the next snapshot in every case, and warns of a failure if and only if
\* all three waits timed out.
C19_BestEffort ==
    /\ hist.lastClick.made =>
          /\ hist.lastClick.waits \in 1..Retries
          /\ hist.lastClick.confirmed <=> hist.lastClick.shownAt \in 1..Retries
          /\ hist.lastClick.confirmed => hist.lastClick.waits = hist.lastClick.shownAt
          /\ hist.lastClick.warned <=>
                hist.lastClick.waits = Retries /\ ~hist.lastClick.confirmed
    /\ ~hist.lastClick.made => hist.lastClick.waits = 0 /\ ~hist.lastClick.warned
    /\ hist.sinceSnap = 1 => pc \in SnapshotPoints

\* A click confirmed by the third wait, and no warning.
C19_Witness ==
    /\ hist.lastClick.waits = Retries
    /\ hist.lastClick.confirmed
    /\ ~hist.lastClick.warned
    /\ pc \in SnapshotPoints

\* Every Flag is issued by Rule 1 on a cell that the most recent snapshot,
\* stored in board, shows unflagged.
FlagOnUnflagged ==
    hist.lastClick.right =>
        /\ hist.lastClick.rule = "rule1"
        /\ hist.lastClick.fresh
        /\ ~hist.lastClick.onFlagged

\* A Rule 1 target that board shows flagged is passed without a click.
SkipFlagged ==
    pc = "rule1" /\ idx <= Len(neighbors) /\ board[neighbors[idx]].flagged =>
        /\ pc' = "rule1"
        /\ idx' = idx + 1
        /\ page' = page
        /\ hist'.stepClicks = hist.stepClicks

\* C15 as stated: no Flag is issued on a cell flagged in the most recent
\* snapshot, so that no right click takes an existing flag off, and a target
\* found flagged is skipped.
C15_Original ==
    /\ FlagOnUnflagged
    /\ ~hist.lastClick.removedFlag

\* C15, amended: no Flag is issued on a cell flagged in the most recent
\* snapshot and a Rule 1 target found flagged is skipped; a right click takes
\* a flag off only if the page set that flag after the snapshot was taken,
\* for an earlier click it handled late.
C15_NoReflag ==
    /\ [](/\ FlagOnUnflagged
          /\ hist.lastClick.removedFlag => hist.lastClick.lateFlag)
    /\ [][SkipFlagged]_vars

\* Rule 1 has skipped a target that the fresh snapshot shows flagged.
C15_Witness ==
    /\ hist.skippedTargets # {}
    /\ pc = "rule1"
    /\ \A x \in hist.skippedTargets : page.dom[x].flag

\* C12: once a snapshot of a game has a height or width other than the game's
\* first snapshot had, the run is over: no further click is issued and the
\* scan moves to no further cell.
C12_DimensionStability ==
    [][hist.resized =>
          /\ hist'.stepClicks <= hist.stepClicks
          /\ <<row', col'>> = <<row, col>>]_vars

\* The last click is a Reveal of Rule 2 or of the random fallback.
LastIsReveal == hist.lastClick.rule \in {"rule2", "rule3"}

\* C22 as stated: every Reveal of Rule 2 or of the random fallback targets a
\* cell that the most recent snapshot before the click shows unrevealed and
\* unflagged.
C22_Original ==
    LastIsReveal =>
        /\ ~hist.lastClick.right
        /\ hist.lastClick.fresh
        /\ ~hist.lastClick.onRevealed
        /\ ~hist.lastClick.onFlagged

\* C22, amended: every Reveal of Rule 2 or of the random fallback is a left
\* click on a cell that was unrevealed and unflagged in the snapshot its
\* targets were listed from, and is issued with the most recent snapshot in
\* board; the first Reveal of a batch and the random Reveal target a cell
\* that this most recent snapshot shows unrevealed and unflagged, a later
\* Reveal of a Rule 2 batch may target a cell it shows revealed.
C22_NoStaleReveal ==
    LastIsReveal =>
        /\ ~hist.lastClick.right
        /\ hist.lastClick.fresh
        /\ hist.lastClick.listedClosed
        /\ ~hist.lastClick.onFlagged
        /\ hist.lastClick.onRevealed =>
              hist.lastClick.rule = "rule2" /\ hist.lastClick.pos >= 2

\* A later Reveal of a Rule 2 batch was issued on a cell that an earlier
\* Reveal of the batch had opened by cascade.
C22_Witness ==
    /\ hist.lastClick.rule = "rule2"
    /\ hist.lastClick.pos >= 2
    /\ hist.lastClick.onRevealed
    /\ hist.lastClick.listedClosed

\* The cells a board shows revealed or flagged.
MarkedCount(b) == Cardinality({x \in DOMAIN b : b[x].revealed \/ b[x].flagged})

\* A step that returns true leaves more cells revealed or flagged on the page
\* than its first snapshot showed.
StepProgress ==
    pc = "return" /\ ret =>
        MarkedCount(getBoardState(page.dom).board) > MarkedCount(hist.firstBoard)

\* Between steps, the steps that returned true number at most width * height.
TrueStepBound ==
    pc \in {"loop", "final", "done"} =>
        hist.stepsInvoked - hist.falseReturns <= Cardinality(DOMAIN page.dom)

\* C21: when every click takes effect and no cell is un-revealed or
\* un-flagged, every step that returns true ends with more cells revealed or
\* flagged than it started with, at most width * height steps return true,
\* and the game loop ends, short of the cap of 100 iterations.
C21_Progress ==
    /\ [](/\ StepProgress
          /\ TrueStepBound
          /\ hist.stepsInvoked < MaxIterations)
    /\ <>(pc = "done")

\* A second step has returned true, each with more cells revealed or flagged.
C21_Witness ==
    /\ pc = "return"
    /\ ret
    /\ hist.stepsInvoked >= 2
    /\ hist.falseReturns = 0
    /\ MarkedCount(getBoardState(page.dom).board) > MarkedCount(hist.firstBoard)

====
